---- MODULE Spec2Model ----
(***************************************************************************)
(* Model of KeyRangePagingEngine.queryRange                                *)
(* (src/classes/core/L3-keyrange-paging/keyrange-paging-engine.ts).        *)
(*                                                                         *)
(* A session is one client paging through one index of one table: the      *)
(* store content, the index metadata and the query fields are chosen in    *)
(* Init and stay fixed, each step is one whole call of queryRange, and the *)
(* token of a response is the inbound token of the next call.              *)
(***************************************************************************)
EXTENDS Integers, Sequences, FiniteSets, TLC

\* ------------------------------------------------------------------ bounds
MaxN == 11           \* records in a secondary-index store
MaxPrimaryN == 25    \* records in a primary-key store
MaxGroup == 4        \* records sharing one indexed key (non-unique index)
MaxSmallLimit == 2   \* small limits 0..MaxSmallLimit
MaxBigLimit == 11    \* big limits SmallLimit..MaxBigLimit
MaxTokKey == 2       \* keys used in client-supplied inbound tokens
MaxCalls == 4        \* calls of queryRange in one session

\* ------------------------------------------------------- program constants
SmallLimit == 10     \* the "limit < 10" threshold of useCursor

VARIABLES store, idx, query, tok, startTok, inTok, pages, resp, call, pc, direct,
          fault, err, probe, hist

vars == <<store, idx, query, tok, startTok, inTok, pages, resp, call, pc, direct,
          fault, err, probe, hist>>

\* ------------------------------------------------------------- sequences
RECURSIVE Concat(_)
Concat(ss) == IF ss = <<>> THEN <<>> ELSE Head(ss) \o Concat(Tail(ss))

RECURSIVE Reverse(_)
Reverse(s) == IF s = <<>> THEN <<>> ELSE Append(Reverse(Tail(s)), Head(s))

Take(s, n) == IF n >= Len(s) THEN s ELSE SubSeq(s, 1, n)

Drop(s, n) == IF n >= Len(s) THEN <<>> ELSE SubSeq(s, n + 1, Len(s))

\* ------------------------------------------------------------------ keys
\* cmp(a, b) of the store: a total order on keys, here the integers.
cmp(a, b) == IF a < b THEN -1 ELSE IF a > b THEN 1 ELSE 0

\* An index entry is [key |-> indexed key, pk |-> primary key]; the index
\* order is by key, then by primary key.
EntryLess(a, b) == cmp(a.key, b.key) < 0 \/ (cmp(a.key, b.key) = 0 /\ cmp(a.pk, b.pk) < 0)

RECURSIVE SortEntries(_)
SortEntries(S) ==
  IF S = {} THEN <<>>
  ELSE LET m == CHOOSE e \in S : \A f \in S \ {e} : EntryLess(e, f)
       IN  <<m>> \o SortEntries(S \ {m})

\* ------------------------------------------------------- index metadata
\* tableIndexLookup[table][index][0]: keyLength, and index.isPrimaryKey,
\* index.unique, index.multiEntry.
PrimaryIdx  == [keyLength |-> 1, isPrimaryKey |-> TRUE,  unique |-> TRUE,  multiEntry |-> FALSE]
OutboundIdx == [keyLength |-> 0, isPrimaryKey |-> TRUE,  unique |-> TRUE,  multiEntry |-> FALSE]
PlainIdx    == [keyLength |-> 1, isPrimaryKey |-> FALSE, unique |-> FALSE, multiEntry |-> FALSE]
UniqueIdx   == [keyLength |-> 1, isPrimaryKey |-> FALSE, unique |-> TRUE,  multiEntry |-> FALSE]
MultiIdx    == [keyLength |-> 1, isPrimaryKey |-> FALSE, unique |-> FALSE, multiEntry |-> TRUE]

IndexShapes == {PrimaryIdx, OutboundIdx, PlainIdx, UniqueIdx, MultiIdx}

\* ------------------------------------------------------------ the stores
\* Records have primary keys 1..n.  The index entries of a store:
\*   primary key index   entry (i, i)
\*   unique index        key n+1-i: key order is the reverse of pk order
\*   plain index         groups of g records share a key
\*   multi-entry index   record i has the keys i and i+1
PrimaryStore(n) == SortEntries({[key |-> i, pk |-> i] : i \in 1..n})

UniqueStore(n) == SortEntries({[key |-> n + 1 - i, pk |-> i] : i \in 1..n})

PlainStore(n, g) == SortEntries({[key |-> ((i - 1) \div g) + 1, pk |-> n + 1 - i] : i \in 1..n})

MultiStore(n) == SortEntries({[key |-> i + d, pk |-> i] : i \in 1..n, d \in {0, 1}})

Stores(ix) ==
  IF ix.isPrimaryKey THEN {PrimaryStore(n) : n \in 0..MaxPrimaryN}
  ELSE IF ix.multiEntry THEN {MultiStore(n) : n \in 0..MaxN}
  ELSE IF ix.unique THEN {UniqueStore(n) : n \in 0..MaxN}
  ELSE {PlainStore(n, g) : n \in 0..MaxN, g \in 2..MaxGroup}

\* The record with primary key p, as get() and the value of a cursor or of
\* getAll() return it: its identity and the keys the index holds for it.
KeysOf(st, p) == {st[i].key : i \in {j \in 1..Len(st) : st[j].pk = p}}

Value(st, p) == [isValue |-> TRUE, pk |-> p, keys |-> KeysOf(st, p)]

\* A primary key as result entry.
PrimaryKeyItem(p) == [isValue |-> FALSE, pk |-> p, keys |-> {}]

\* idx.extractKey(value): the indexed key of a record (its primary key for
\* the primary-key index).
extractKey(ix, v) == IF ix.isPrimaryKey THEN v.pk ELSE CHOOSE k \in v.keys : TRUE

\* primaryKeyIdx.extractKey(value)
extractPrimaryKey(v) == v.pk

\* --------------------------------------------------------------- ranges
\* KeyRange: lower, lowerOpen, upper, upperOpen; a bound that is not set is
\* unbounded.
AnyRange == [hasLower |-> FALSE, lower |-> 0, lowerOpen |-> FALSE,
             hasUpper |-> FALSE, upper |-> 0, upperOpen |-> FALSE]

InRange(k, r) ==
  /\ r.hasLower => IF r.lowerOpen THEN cmp(k, r.lower) > 0 ELSE cmp(k, r.lower) >= 0
  /\ r.hasUpper => IF r.upperOpen THEN cmp(k, r.upper) < 0 ELSE cmp(k, r.upper) <= 0

Ranges ==
  { AnyRange,
    [AnyRange EXCEPT !.hasLower = TRUE, !.lower = 2],
    [AnyRange EXCEPT !.hasLower = TRUE, !.lower = 1, !.lowerOpen = TRUE,
                     !.hasUpper = TRUE, !.upper = 3],
    [AnyRange EXCEPT !.hasUpper = TRUE, !.upper = 3, !.upperOpen = TRUE] }

\* -------------------------------------------------------------- cursors
\* A cursor over the entries ents of its range, in its direction, positioned
\* at ents[pos].  skip is the count an OffsetCursor still has to advance
\* before its first callback; hasSeek marks the cursor whose start() first
\* seeks to (seekKey, seekPk).
NullCursor == [isNull |-> TRUE, ents |-> <<>>, pos |-> 0, reverse |-> FALSE,
               skip |-> 0, hasSeek |-> FALSE, seekKey |-> 0, seekPk |-> 0]

\* unique: only the first entry of every key is visited.
UniqueEntries(s) == SelectSeq(s, LAMBDA e : \A f \in {s[i] : i \in 1..Len(s)} :
                                   f.key = e.key => ~EntryLess(f, e))

RangeEntries(st, r) == SelectSeq(st, LAMBDA e : InRange(e.key, r))

CursorEntries(st, q) ==
  LET inr == RangeEntries(st, q.range)
      u   == IF q.unique THEN UniqueEntries(inr) ELSE inr
  IN  IF q.reverse THEN Reverse(u) ELSE u

\* next.openCursor(query): a cursor on the first entry of the range, or
\* null when the range holds no entry.
NextOpenCursor(st, q) ==
  LET es == CursorEntries(st, q)
  IN  IF es = <<>> THEN NullCursor
      ELSE [NullCursor EXCEPT !.isNull = FALSE, !.ents = es, !.pos = 1,
                              !.reverse = q.reverse]

\* OffsetCursor(cursor, offset)
OffsetCursor(c, offset) == [c EXCEPT !.skip = offset]

\* The entry e is at or after the position (k, p) in the cursor's direction.
AtOrPast(c, e, k, p) ==
  IF c.reverse
  THEN cmp(e.key, k) < 0 \/ (cmp(e.key, k) = 0 /\ cmp(e.pk, p) <= 0)
  ELSE cmp(e.key, k) > 0 \/ (cmp(e.key, k) = 0 /\ cmp(e.pk, p) >= 0)

\* cursor.start(onNext): the position of the cursor when onNext is called
\* the first time; a position behind the last entry means that the
\* iteration ends without a call of onNext.  A plain cursor calls onNext on
\* the entry it is positioned at.
StartPos(c) ==
  IF c.skip > 0 THEN c.pos + c.skip
  ELSE IF c.hasSeek
  THEN LET at == {i \in c.pos..Len(c.ents) : AtOrPast(c, c.ents[i], c.seekKey, c.seekPk)}
       IN  IF at = {} THEN Len(c.ents) + 1
           ELSE CHOOSE i \in at : \A j \in at : i <= j
  ELSE c.pos

\* values ? cursor.value : cursor.primaryKey
CursorItem(st, c, p, values) ==
  IF values THEN Value(st, c.ents[p].pk) ELSE PrimaryKeyItem(c.ents[p].pk)

\* ------------------------------------------------------------ page tokens
NoToken == [type |-> "none", cursor |-> NullCursor, offset |-> 0, lastKey |-> 0,
            hasLastPrimaryKey |-> FALSE, lastPrimaryKey |-> 0]

CursorToken(c) == [NoToken EXCEPT !.type = "cursor", !.cursor = c]

OffsetToken(n) == [NoToken EXCEPT !.type = "offset", !.offset = n]

LastKeyToken(k) == [NoToken EXCEPT !.type = "lastKey", !.lastKey = k]

LastKeyPkToken(k, p) == [NoToken EXCEPT !.type = "lastKey", !.lastKey = k,
                                        !.hasLastPrimaryKey = TRUE, !.lastPrimaryKey = p]

\* ---------------------------------------------------------- the response
Response(result, token, partial) ==
  [result |-> result, pageToken |-> token, partial |-> partial]

\* What one call of queryRange did to the storage layer: the calls of
\* next.getAll, next.openCursor and next.get and the calls of the iteration
\* callback.
Trace(path, nGetAll, nOpen, nGet, nSteps) ==
  [path |-> path, getAll |-> nGetAll, openCursor |-> nOpen, get |-> nGet, steps |-> nSteps]

Outcome(r, t) == [resp |-> r, trace |-> t]

\* ----------------------------------------------------------- openCursor
\* The range of a lastKey token: the bound on the resumption side is set to
\* lastKey, inclusive.
LastKeyRange(q, t) ==
  IF q.reverse
  THEN [q.range EXCEPT !.hasUpper = TRUE, !.upper = t.lastKey, !.upperOpen = FALSE]
  ELSE [q.range EXCEPT !.hasLower = TRUE, !.lower = t.lastKey, !.lowerOpen = FALSE]

\* The cursor whose start(onNext) is start(() => stop(), lastKey,
\* lastPrimaryKey) followed by start(onNext).
SeekCursor(c, t) ==
  IF c.isNull THEN c
  ELSE [c EXCEPT !.hasSeek = TRUE, !.seekKey = t.lastKey, !.seekPk = t.lastPrimaryKey]

\* openCursor(query) of the engine, with the page token t of the query.
openCursor(st, q, t) ==
  IF t.type = "none" THEN NextOpenCursor(st, q)
  ELSE IF t.type # "lastKey"
  THEN IF t.type = "cursor" THEN t.cursor
       ELSE OffsetCursor(NextOpenCursor(st, q), t.offset)
  ELSE LET c == NextOpenCursor(st, [q EXCEPT !.range = LastKeyRange(q, t)])
       IN  IF ~t.hasLastPrimaryKey THEN c ELSE SeekCursor(c, t)

\* The calls of next.openCursor that openCursor(query) makes.
OpenCount(t) == IF t.type = "cursor" THEN 0 ELSE 1

\* ----------------------------------------------------------- queryRange
\* useCursor without the test of reverse.
useCursorNoReverse(ix, q, t) ==
  \/ (t.type # "none" /\ t.type # "lastKey")
  \/ q.unique
  \/ ix.keyLength = 0
  \/ (q.limit < SmallLimit /\ ~q.values /\ ~ix.isPrimaryKey)

useCursor(ix, q, t) ==
  \/ (t.type # "none" /\ t.type # "lastKey")
  \/ q.reverse
  \/ q.unique
  \/ ix.keyLength = 0
  \/ (q.limit < SmallLimit /\ ~q.values /\ ~ix.isPrimaryKey)

\* limit === 0 answered with a cursor token whether one is wanted or not.
LimitZeroAlwaysToken(st, ix, q, t) ==
  Outcome(Response(<<>>, CursorToken(openCursor(st, q, t)), FALSE),
          Trace("limit0", 0, OpenCount(t), 0, 0))

\* limit === 0
LimitZero(st, ix, q, t) ==
  IF q.wantPageToken
  THEN Outcome(Response(<<>>, CursorToken(openCursor(st, q, t)), FALSE),
               Trace("limit0", 0, OpenCount(t), 0, 0))
  ELSE Outcome(Response(<<>>, NoToken, FALSE), Trace("limit0", 0, 0, 0, 0))

\* The callback of the cursor path, called with the cursor at ents[p]:
\* push, stop(true) when the limit is reached, else continue.
RECURSIVE CursorWalk(_, _, _, _, _, _)
CursorWalk(st, c, p, result, q, n) ==
  IF p > Len(c.ents) THEN [result |-> result, limitReached |-> FALSE, pos |-> p, steps |-> n]
  ELSE LET r2 == Append(result, CursorItem(st, c, p, q.values))
       IN  IF Len(r2) = q.limit
           THEN [result |-> r2, limitReached |-> TRUE, pos |-> p, steps |-> n + 1]
           ELSE CursorWalk(st, c, p + 1, r2, q, n + 1)

\* The cursor after an iteration that left it at position p.
Moved(c, p) == [c EXCEPT !.pos = p, !.skip = 0]

\* if (useCursor) ...
CursorPath(st, ix, q, t) ==
  LET c == openCursor(st, q, t)
  IN  IF c.isNull
      THEN Outcome(Response(<<>>, NoToken, FALSE), Trace("cursor", 0, OpenCount(t), 0, 0))
      ELSE LET w == CursorWalk(st, c, StartPos(c), <<>>, q, 0)
           IN  Outcome(Response(w.result,
                                IF w.limitReached /\ q.wantPageToken
                                THEN CursorToken(Moved(c, w.pos)) ELSE NoToken,
                                FALSE),
                       Trace("cursor", 0, OpenCount(t), 0, w.steps))

\* The value the iteration of the cursor fallback resolves with: undefined
\* at the end of the cursor, {passed: true}, or {lastPrimaryKey: pk}.
StopEnd == [fields |-> {}, passed |-> FALSE, lastPrimaryKey |-> 0]

StopPassed == [fields |-> {"passed"}, passed |-> TRUE, lastPrimaryKey |-> 0]

StopAtLimit(p) == [fields |-> {"lastPrimaryKey"}, passed |-> FALSE, lastPrimaryKey |-> p]

\* The callback of the cursor fallback.
RECURSIVE FallbackWalk(_, _, _, _, _, _, _)
FallbackWalk(st, c, p, result, q, lastKey, n) ==
  IF p > Len(c.ents) THEN [result |-> result, res |-> StopEnd, steps |-> n]
  ELSE IF cmp(c.ents[p].key, lastKey) > 0
  THEN [result |-> result, res |-> StopPassed, steps |-> n + 1]
  ELSE LET r2 == Append(result, CursorItem(st, c, p, q.values))
       IN  IF Len(r2) < q.limit
           THEN FallbackWalk(st, c, p + 1, r2, q, lastKey, n + 1)
           ELSE [result |-> r2, res |-> StopAtLimit(c.ents[p].pk), steps |-> n + 1]

\* The token of the limit-reached case of the fallback: lastKey, and
\* lastPrimaryKey: res.primaryKey.
FallbackToken(lastKey, res) ==
  IF "primaryKey" \in res.fields
  THEN LastKeyPkToken(lastKey, res.lastPrimaryKey)
  ELSE LastKeyToken(lastKey)

\* res.passed answered without a page token.
PassedResponseNoToken(result, lastKey) == Response(result, NoToken, TRUE)

\* res.passed: partial, and always a lastKey token without lastPrimaryKey.
PassedResponse(result, lastKey) == Response(result, LastKeyToken(lastKey), TRUE)

\* The limit-reached response with the token whether it is wanted or not.
LimitReachedResponseAlwaysToken(result, lastKey, res, q) ==
  Response(result, FallbackToken(lastKey, res), FALSE)

\* The limit-reached case of the fallback: return wantPageToken ?
\* {result, pageToken} : {result}.
LimitReachedResponse(result, lastKey, res, q) ==
  IF q.wantPageToken
  THEN Response(result, FallbackToken(lastKey, res), FALSE)
  ELSE Response(result, NoToken, FALSE)

\* The test of lastPrimaryKey left out: every lastKey token is a bulk read.
hasLastPrimaryKeyNever(t) == FALSE

\* if (pageToken) ... if (lastPrimaryKey != null)
hasLastPrimaryKey(t) == t.type # "none" /\ t.hasLastPrimaryKey

\* The cursor fallback for a lastKey token with lastPrimaryKey.
Fallback(st, ix, q, t) ==
  LET c == openCursor(st, q, t)
  IN  IF c.isNull
      THEN Outcome(Response(<<>>, NoToken, FALSE), Trace("fallback", 0, OpenCount(t), 0, 0))
      ELSE LET w == FallbackWalk(st, c, StartPos(c), <<>>, q, t.lastKey, 0)
               r == IF w.res.fields = {} THEN Response(w.result, NoToken, FALSE)
                    ELSE IF w.res.passed
                    THEN PassedResponse(w.result, t.lastKey)
                    ELSE LimitReachedResponse(w.result, t.lastKey, w.res, q)
           IN  Outcome(r, Trace("fallback", 0, OpenCount(t), 0, w.steps))

\* next.getAll(query): the first limit entries of the range, in ascending
\* order, as values or as primary keys.
NextGetAll(st, q) ==
  LET es == Take(RangeEntries(st, q.range), q.limit)
  IN  [i \in 1..Len(es) |-> IF q.values THEN Value(st, es[i].pk) ELSE PrimaryKeyItem(es[i].pk)]

\* The bulk read resumed at lastKey inclusive.
GetAllRangeInclusive(q, t) ==
  IF t.type = "none" THEN q.range
  ELSE [q.range EXCEPT !.hasLower = TRUE, !.lower = t.lastKey, !.lowerOpen = FALSE]

\* The range of the bulk read for a lastKey token without lastPrimaryKey.
GetAllRange(q, t) ==
  IF t.type = "none" THEN q.range
  ELSE [q.range EXCEPT !.hasLower = TRUE, !.lower = t.lastKey, !.lowerOpen = TRUE]

\* The token for a bulk read that returned limit entries, wantPageToken set.
ValuesToken(ix, lastEntry) ==
  IF ix.unique THEN LastKeyToken(extractKey(ix, lastEntry))
  ELSE LastKeyPkToken(extractKey(ix, lastEntry), extractPrimaryKey(lastEntry))

PrimaryKeyToken(lastEntry) == LastKeyToken(lastEntry.pk)

\* next.get({keys: [lastEntry]}) and then lastKey: lastEntry,
\* lastPrimaryKey: idx.extractKey(value)
KeysToken(st, ix, lastEntry) ==
  LastKeyPkToken(lastEntry.pk, extractKey(ix, Value(st, lastEntry.pk)))

\* A short bulk read answered with a cursor token.
ShortResponseCursorToken(result) == Response(result, CursorToken(NullCursor), FALSE)

\* result.length < limit: the response carries no page token.
ShortResponse(result) == Response(result, NoToken, FALSE)

\* The offset token one entry short.
OffsetPageTokenShort(q) == OffsetToken(q.limit - 1)

\* The offset token of a multiEntry index or an outbound primary key.
OffsetPageToken(q) == OffsetToken(q.limit)

\* return next.getAll(query).then(...)
GetAllPath(st, ix, q, t) ==
  LET result == NextGetAll(st, [q EXCEPT !.range = GetAllRange(q, t)])
  IN  IF Len(result) < q.limit
      THEN Outcome(ShortResponse(result), Trace("getAll", 1, 0, 0, 0))
      ELSE IF ix.multiEntry \/ (q.values /\ ix.keyLength = 0)
      THEN Outcome(Response(result, IF q.wantPageToken THEN OffsetPageToken(q) ELSE NoToken, FALSE),
                   Trace("getAll", 1, 0, 0, 0))
      ELSE IF ~q.wantPageToken
      THEN Outcome(Response(result, NoToken, FALSE), Trace("getAll", 1, 0, 0, 0))
      ELSE LET lastEntry == result[q.limit]
           IN  IF q.values
               THEN Outcome(Response(result, ValuesToken(ix, lastEntry), FALSE),
                            Trace("getAll", 1, 0, 0, 0))
               ELSE IF ix.isPrimaryKey
               THEN Outcome(Response(result, PrimaryKeyToken(lastEntry), FALSE),
                            Trace("getAll", 1, 0, 0, 0))
               ELSE Outcome(Response(result, KeysToken(st, ix, lastEntry), FALSE),
                            Trace("getAll", 1, 0, 1, 0))

\* ------------------------------------------------- storage-layer failures
\* The operation of the storage layer that fails in this session, if any.
Faults == {"none", "openCursor", "start", "getAll", "get", "cmp"}

\* The call with fault-free outcome o calls the operation f: openCursor(),
\* cursor.start() on a cursor that is not null, cmp in the callback of the
\* fallback, getAll(), get().
CallsOp(st, q, t, o, f) ==
  \/ f = "openCursor" /\ o.trace.openCursor > 0
  \/ f = "start" /\ o.trace.path \in {"cursor", "fallback"} /\ ~openCursor(st, q, t).isNull
  \/ f = "cmp" /\ o.trace.path = "fallback" /\ o.trace.steps >= 1
  \/ f = "getAll" /\ o.trace.getAll > 0
  \/ f = "get" /\ o.trace.get > 0

\* The promise of queryRange with a failure of get handled locally.
RejectsExceptGet(st, q, t, o, f) == f # "get" /\ CallsOp(st, q, t, o, f)

\* The promise queryRange returns is rejected: every storage promise is
\* chained with then(onFulfilled) only, there is no catch, so the failure
\* of an operation the call makes is the failure of the call.
Rejects(st, q, t, o, f) == CallsOp(st, q, t, o, f)

\* The storage operations of a call up to the one that failed.
FailedTrace(tr, f) ==
  IF f = "openCursor" THEN Trace(tr.path, 0, 1, 0, 0)
  ELSE IF f = "start" THEN [tr EXCEPT !.steps = 0]
  ELSE IF f = "cmp" THEN [tr EXCEPT !.steps = 1]
  ELSE IF f = "getAll" THEN Trace(tr.path, 1, 0, 0, 0)
  ELSE tr

NoError == [op |-> "none", trace |-> Trace("none", 0, 0, 0, 0), inTok |-> NoToken]

\* ------------------------------------------- the operations of the engine
\* The object KeyRangePagingEngine(next) returns: {...next, queryRange,
\* openCursor(query) { return null; }}.
EngineOpenCursor(st, q) == NullCursor

\* getAll comes from ...next.
EngineGetAll(st, q) == NextGetAll(st, q)

\* What a direct call of an operation of the engine returned.
NoDirect == [op |-> "none", cursor |-> NullCursor, result |-> <<>>]

\* ------------------------------------------------------------ the session
Limits == (0..MaxSmallLimit) \cup (SmallLimit..MaxBigLimit)

Queries == [range : Ranges, values : BOOLEAN, limit : Limits, unique : BOOLEAN,
            reverse : BOOLEAN, wantPageToken : BOOLEAN]

\* The tokens a client can make up itself (a cursor token holds a live cursor
\* and comes from a response only).
ClientTokens ==
  {OffsetToken(n) : n \in 1..MaxTokKey}
    \cup {LastKeyToken(k) : k \in 1..MaxTokKey}
    \cup {LastKeyPkToken(k, p) : k \in 1..MaxTokKey, p \in 1..MaxTokKey}

NoResponse == Response(<<>>, NoToken, FALSE)

\* What the client that compares two ways of reading a page has seen: the
\* limit k, the page read with the token of a limit = 0 call, and the page
\* read directly with the first token.
NoProbe == [k |-> 0, via |-> <<>>, directly |-> <<>>]

Init ==
  /\ idx \in IndexShapes
  /\ store \in Stores(idx)
  /\ query \in Queries
  /\ startTok \in {NoToken} \cup ClientTokens
  \* an offset token belongs to a range that holds entries
  /\ startTok.type = "offset" => RangeEntries(store, query.range) # <<>>
  /\ tok = startTok
  /\ inTok = NoToken
  /\ pages = <<>>
  /\ resp = NoResponse
  /\ call = Trace("none", 0, 0, 0, 0)
  /\ pc = "call"
  /\ direct = NoDirect
  /\ fault \in Faults
  /\ fault # "none" => startTok.type = "none"
  /\ err = NoError
  /\ probe = NoProbe
  /\ hist = <<>>

\* The call fails: the client gets the error and no response.
Fail(o) ==
  /\ err' = [op |-> fault, trace |-> FailedTrace(o.trace, fault), inTok |-> tok]
  /\ pc' = "failed"
  /\ UNCHANGED <<store, idx, query, tok, startTok, inTok, pages, resp, call, direct, fault, probe, hist>>

\* The response reaches the client: it keeps the page and calls again with
\* the token of the response, if there is one.  A client that made up its
\* first token calls once.
Respond(o) ==
  /\ resp' = o.resp
  /\ call' = o.trace
  /\ inTok' = tok
  /\ pages' = Append(pages, o.resp.result)
  /\ tok' = o.resp.pageToken
  /\ pc' = IF o.resp.pageToken.type = "none" \/ startTok.type # "none"
              \/ Len(pages) + 1 >= MaxCalls
           THEN "done" ELSE "call"
  /\ hist' = Append(hist, tok)
  /\ UNCHANGED <<store, idx, query, startTok, direct, fault, err, probe>>

\* The promise of the call settles.
Deliver(o) ==
  IF Rejects(store, query, tok, o, fault) THEN Fail(o) ELSE Respond(o)

QueryLimitZero ==
  /\ pc = "call"
  /\ query.limit = 0
  /\ Deliver(LimitZero(store, idx, query, tok))

QueryCursorPath ==
  /\ pc = "call"
  /\ query.limit # 0
  /\ useCursor(idx, query, tok)
  /\ Deliver(CursorPath(store, idx, query, tok))

QueryFallback ==
  /\ pc = "call"
  /\ query.limit # 0
  /\ ~useCursor(idx, query, tok)
  /\ hasLastPrimaryKey(tok)
  /\ Deliver(Fallback(store, idx, query, tok))

QueryGetAll ==
  /\ pc = "call"
  /\ query.limit # 0
  /\ ~useCursor(idx, query, tok)
  /\ ~hasLastPrimaryKey(tok)
  /\ Deliver(GetAllPath(store, idx, query, tok))

\* queryRange(query) as a whole: limit === 0, the cursor path, the cursor
\* fallback, the bulk read.
Dispatch(st, ix, q, t) ==
  IF q.limit = 0 THEN LimitZero(st, ix, q, t)
  ELSE IF useCursor(ix, q, t) THEN CursorPath(st, ix, q, t)
  ELSE IF hasLastPrimaryKey(t) THEN Fallback(st, ix, q, t)
  ELSE GetAllPath(st, ix, q, t)

\* After a call with limit 0 that returned the token T', the client reads
\* k entries with T', and, for comparison, k entries with its first token.
QueryAfterLimitZero ==
  /\ pc \in {"call", "done"} /\ fault = "none"
  /\ query.limit = 0 /\ Len(pages) = 1 /\ resp.pageToken.type = "cursor"
  /\ \E k \in Limits \ {0} :
       probe' = [k |-> k,
                 via |-> Dispatch(store, idx, [query EXCEPT !.limit = k],
                                  resp.pageToken).resp.result,
                 directly |-> Dispatch(store, idx, [query EXCEPT !.limit = k],
                                       startTok).resp.result]
  /\ pc' = "probed"
  /\ UNCHANGED <<store, idx, query, tok, startTok, inTok, pages, resp, call, direct,
                 fault, err, hist>>

\* A caller unaware of paging uses the other operations of the engine.
DirectOpenCursor ==
  /\ pc = "call" /\ pages = <<>> /\ startTok.type = "none" /\ fault = "none"
  /\ direct' = [NoDirect EXCEPT !.op = "openCursor", !.cursor = EngineOpenCursor(store, query)]
  /\ pc' = "direct"
  /\ UNCHANGED <<store, idx, query, tok, startTok, inTok, pages, resp, call, fault, err, probe, hist>>

DirectGetAll ==
  /\ pc = "call" /\ pages = <<>> /\ startTok.type = "none" /\ fault = "none"
  /\ direct' = [NoDirect EXCEPT !.op = "getAll", !.result = EngineGetAll(store, query)]
  /\ pc' = "direct"
  /\ UNCHANGED <<store, idx, query, tok, startTok, inTok, pages, resp, call, fault, err, probe, hist>>

Next ==
  \/ QueryLimitZero \/ QueryCursorPath \/ QueryFallback \/ QueryGetAll
  \/ DirectOpenCursor \/ DirectGetAll
  \/ QueryAfterLimitZero

Spec == Init /\ [][Next]_vars

TypeOK ==
  /\ pc \in {"call", "done", "direct", "failed", "probed"}
  /\ Len(pages) <= MaxCalls
  /\ resp.pageToken.type \in {"none", "cursor", "offset", "lastKey"}

\* ------------------------------------------------------------ properties
\* The result entries for a sequence of index entries.
Items(st, es, values) ==
  [i \in 1..Len(es) |-> IF values THEN Value(st, es[i].pk) ELSE PrimaryKeyItem(es[i].pk)]

\* A single unbounded scan of the range of the query, under its flags.
Scan(st, q) == Items(st, CursorEntries(st, q), q.values)

PkSet(s) == {s[i].pk : i \in 1..Len(s)}

Called == Len(pages) >= 1

\* A paging sequence: no token in the first call, then the returned tokens.
Paging == startTok.type = "none" /\ query.wantPageToken /\ query.limit >= 1

\* The selector serves the first call of the session by a bulk read.
BulkQuery == ~useCursor(idx, query, NoToken)

\* The paging sequence is complete: a response carried no page token.
Complete == pc = "done" /\ resp.pageToken.type = "none"

\* C1: when a paging sequence with a fixed limit k >= 1 ends with a response
\* without page token, the concatenation of its pages is the single
\* unbounded scan of the range under the same flags (stated for the
\* queries that start with a bulk read).
C1_RoundTrip ==
  (Paging /\ BulkQuery /\ Complete) => Concat(pages) = Scan(store, query)

\* Duplicates of one indexed key straddle a page boundary: a page ends with
\* an entry whose successor in the index has the same key.
Straddles ==
  LET scan == RangeEntries(store, query.range)
  IN  \E j \in 1..(Len(scan) - 1) : \E i \in 1..Len(pages) :
        /\ scan[j].key = scan[j + 1].key
        /\ pages[i] # <<>>
        /\ pages[i][Len(pages[i])].pk = scan[j].pk

\* C2: paging forward over a non-unique, non-primary, non-multi-entry index
\* whose duplicate keys straddle a page boundary skips no record (a returned
\* record has all its predecessors in the index returned too) and returns
\* no record on two adjacent pages (stated for the complete sequences that
\* start with a bulk read).
C2_DuplicateKeys ==
  (Paging /\ BulkQuery /\ Complete /\ idx = PlainIdx /\ ~query.reverse /\ ~query.unique
     /\ Straddles)
    => LET scan == RangeEntries(store, query.range)
           got  == PkSet(Concat(pages))
       IN  /\ \A j \in 1..Len(scan) : scan[j].pk \in got
                 => \A i \in 1..j : scan[i].pk \in got
           /\ \A i \in 1..(Len(pages) - 1) : PkSet(pages[i]) \cap PkSet(pages[i + 1]) = {}

\* C3: a bulk read on a multi-entry index that returns limit entries, page
\* token wanted, answers with the offset token of offset = limit; the call
\* with that token takes the cursor path, opens one cursor, makes no bulk
\* read, and the two pages together are the first offset + limit entries of
\* the scan of the original range: no gap and no duplicate.
C3_MultiEntryOffset ==
  /\ (Called /\ call.path = "getAll" /\ idx.multiEntry /\ query.wantPageToken
        /\ Len(resp.result) = query.limit)
       => resp.pageToken = OffsetToken(query.limit)
  /\ (Called /\ inTok.type = "offset" /\ idx.multiEntry /\ startTok.type = "none")
       => /\ call.path = "cursor"
          /\ call.getAll = 0
          /\ call.openCursor = 1
          /\ inTok.offset = query.limit
          /\ Concat(pages) = Take(Scan(store, query), inTok.offset + query.limit)

C3_Witness ==
  /\ Len(pages) = 2 /\ inTok.type = "offset" /\ idx.multiEntry /\ startTok.type = "none"
  /\ Len(resp.result) = query.limit
  /\ Len(Scan(store, query)) > 2 * query.limit

\* C4: a lastKey token emitted for a unique index or for the primary-key
\* index has no lastPrimaryKey.
C4_UniqueTokenMinimal ==
  (Called /\ (idx.unique \/ idx.isPrimaryKey) /\ resp.pageToken.type = "lastKey")
    => ~resp.pageToken.hasLastPrimaryKey

\* The case of C5: keys only, inbound primary key, limit k >= 10.
PrimaryKeyPaging ==
  /\ Paging /\ Called /\ idx = PrimaryIdx
  /\ ~query.values /\ ~query.unique /\ ~query.reverse
  /\ query.limit >= SmallLimit

\* C5: page i is the i-th block of k consecutive primary keys in ascending
\* order; a page of k entries carries the token lastKey = its last primary
\* key without lastPrimaryKey, a shorter page carries no token.
C5_PrimaryKeyPages ==
  PrimaryKeyPaging
    => LET k    == query.limit
           scan == Scan(store, query)
       IN  /\ \A i \in 1..Len(pages) : pages[i] = Take(Drop(scan, (i - 1) * k), k)
           /\ \A i \in 1..Len(pages) : \A j \in 1..(Len(pages[i]) - 1) :
                 pages[i][j + 1].pk = pages[i][j].pk + 1
           /\ Len(resp.result) = k => resp.pageToken = LastKeyToken(resp.result[k].pk)
           /\ Len(resp.result) < k => resp.pageToken = NoToken

C5_Witness ==
  /\ PrimaryKeyPaging /\ pc = "done"
  /\ Len(store) = 25 /\ query.limit = 10 /\ query.range = AnyRange
  /\ Len(pages) = 3 /\ Len(pages[3]) = 5
  /\ inTok = LastKeyToken(20)
  /\ resp.pageToken = NoToken

\* No entry matches the range of a first call with limit > 0.
EmptyRangeCall ==
  /\ Called /\ inTok.type = "none"
  /\ query.limit > 0
  /\ RangeEntries(store, query.range) = <<>>

\* C6 as stated: the result is empty, and a cursor token is returned if and
\* only if wantPageToken is set.
C6_EmptyRangeCursorToken ==
  EmptyRangeCall
    => resp.result = <<>> /\ (resp.pageToken.type = "cursor" <=> query.wantPageToken)

\* C6 amended: the result is empty and no page token is returned, whether
\* wantPageToken is set or not.
C6_EmptyRangeNoToken ==
  EmptyRangeCall => resp.result = <<>> /\ resp.pageToken = NoToken /\ ~resp.partial

C6_Witness ==
  /\ EmptyRangeCall /\ query.wantPageToken /\ store # <<>> /\ call.path = "getAll"

\* C7: with limit 0 the result is empty, no bulk read is made, no cursor is
\* stepped, and a token is returned iff wantPageToken; it is a cursor token.
C7_LimitZero ==
  (Called /\ query.limit = 0)
    => /\ resp.result = <<>>
       /\ call.getAll = 0 /\ call.get = 0 /\ call.steps = 0
       /\ (resp.pageToken.type # "none") <=> query.wantPageToken
       /\ query.wantPageToken => resp.pageToken.type = "cursor"
       /\ ~resp.partial

C7_Witness ==
  /\ Called /\ query.limit = 0 /\ query.wantPageToken
  /\ inTok.type = "lastKey" /\ inTok.hasLastPrimaryKey
  /\ ~resp.pageToken.cursor.isNull

\* C8: a query with reverse set never makes a bulk read.
C8_ReverseNoGetAll ==
  (Called /\ query.reverse) => call.getAll = 0 /\ call.path \in {"limit0", "cursor"}

C8_Witness ==
  /\ Called /\ query.reverse /\ query.values /\ ~query.unique
  /\ query.limit >= SmallLimit /\ idx.keyLength # 0
  /\ inTok.type = "lastKey" /\ ~inTok.hasLastPrimaryKey
  /\ resp.result # <<>>

C10_Partial ==
  resp.partial
    => /\ inTok.type = "lastKey"
       /\ resp.pageToken = LastKeyToken(inTok.lastKey)
       /\ Len(resp.result) < query.limit
       /\ \A i \in 1..Len(resp.result) : inTok.lastKey \in KeysOf(store, resp.result[i].pk)
       /\ ~idx.multiEntry =>
            \A i \in 1..Len(resp.result) : KeysOf(store, resp.result[i].pk) = {inTok.lastKey}

C10_Witness ==
  /\ resp.partial /\ ~query.wantPageToken /\ resp.result # <<>>
  /\ resp.pageToken.type = "lastKey"

\* C11: a response to a query without wantPageToken carries a page token
\* only if it is partial; the cursor path, the bulk path, limit 0 and the
\* limit-reached case of the cursor fallback return no token.
C11_NoTokenUnlessPartial ==
  (Called /\ ~query.wantPageToken)
    => /\ resp.pageToken.type # "none" => resp.partial
       /\ call.path \in {"limit0", "cursor", "getAll"} => resp.pageToken = NoToken
       /\ (call.path = "fallback" /\ Len(resp.result) = query.limit)
            => resp.pageToken = NoToken /\ ~resp.partial

C11_Witness ==
  /\ Called /\ ~query.wantPageToken
  /\ call.path = "fallback" /\ Len(resp.result) = query.limit
  /\ Len(RangeEntries(store, query.range)) > query.limit

\* C12: the operations of the engine other than queryRange return what the
\* same operation of the underlying layer returns: openCursor the cursor of
\* next.openCursor, getAll the result of next.getAll.
C12_PassThrough ==
  /\ direct.op = "openCursor" => direct.cursor = NextOpenCursor(store, query)
  /\ direct.op = "getAll" => direct.result = NextGetAll(store, query)

\* The last call that responded called the operation f.
Used(f) ==
  \/ f = "openCursor" /\ call.openCursor > 0
  \/ f = "start" /\ call.path \in {"cursor", "fallback"} /\ call.steps >= 1
  \/ f = "cmp" /\ call.path = "fallback" /\ call.steps >= 1
  \/ f = "getAll" /\ call.getAll > 0
  \/ f = "get" /\ call.get > 0

\* C13: when an operation of the storage layer fails, no call that makes
\* that operation produces a response; the call fails with the error of the
\* operation, the session ends, the operation was tried once, and no other
\* strategy was tried after it.
C13_ErrorsPropagate ==
  /\ (Called /\ fault # "none") => ~Used(fault)
  /\ err.op # "none"
       => /\ err.op = fault /\ pc = "failed"
          /\ err.inTok = tok
          /\ err.trace.openCursor <= 1 /\ err.trace.getAll <= 1 /\ err.trace.get <= 1
          /\ fault = "openCursor" => err.trace.getAll = 0 /\ err.trace.steps = 0
          /\ fault = "getAll" => err.trace.openCursor = 0 /\ err.trace.get = 0
          /\ fault \in {"start", "cmp"} => err.trace.getAll = 0
  /\ fault = "none" => err = NoError

C13_Witness ==
  /\ err.op = "cmp" /\ pc = "failed"
  /\ Len(pages) = 1 /\ resp.pageToken.hasLastPrimaryKey
  /\ err.trace.path = "fallback"

\* C14: a call of the fallback that returns a full page and was asked for
\* a token returns the token {lastKey, lastPrimaryKey} with the key of the
\* inbound token and the primary key of the last entry of the page.
C14_FallbackLimitToken ==
  (/\ Called /\ call.path = "fallback"
   /\ query.wantPageToken /\ query.limit > 0
   /\ Len(resp.result) = query.limit)
    => resp.pageToken =
         LastKeyPkToken(inTok.lastKey, resp.result[query.limit].pk)

\* C15: on an index that is neither unique nor the primary key, a bulk
\* call for keys that returns a full page and was asked for a token
\* returns the token {lastKey, lastPrimaryKey} with the indexed key of the
\* record of the last primary key and that primary key.
C15_KeysToken ==
  (/\ Called /\ call.path = "getAll"
   /\ ~query.values /\ idx = PlainIdx
   /\ query.wantPageToken
   /\ Len(resp.result) = query.limit)
    => resp.pageToken =
         LastKeyPkToken(
           extractKey(idx, Value(store, resp.result[query.limit].pk)),
           resp.result[query.limit].pk)

\* The index entry of a result entry, on an index that holds one key for
\* every record.
EntryOf(st, item) == [key |-> CHOOSE k \in KeysOf(st, item.pk) : TRUE, pk |-> item.pk]

\* The entry e is strictly after the position (k, p) in the direction of
\* the query.
StrictlyAfter(e, k, p, reverse) ==
  IF reverse
  THEN cmp(e.key, k) < 0 \/ (cmp(e.key, k) = 0 /\ cmp(e.pk, p) < 0)
  ELSE cmp(e.key, k) > 0 \/ (cmp(e.key, k) = 0 /\ cmp(e.pk, p) > 0)

\* C16: a call with a lastKey token that carries lastPrimaryKey iterates a
\* cursor whose first entry is strictly after (lastKey, lastPrimaryKey) in
\* index order; the entry at (lastKey, lastPrimaryKey) is not returned.
C16_SeekAndDiscard ==
  (/\ Called /\ inTok.type = "lastKey" /\ inTok.hasLastPrimaryKey
   /\ ~idx.multiEntry
   /\ call.path \in {"cursor", "fallback"}
   /\ resp.result # <<>>)
    => /\ StrictlyAfter(EntryOf(store, resp.result[1]),
                        inTok.lastKey, inTok.lastPrimaryKey, query.reverse)
       /\ \A i \in 1..Len(resp.result) :
            EntryOf(store, resp.result[i]) #
              [key |-> inTok.lastKey, pk |-> inTok.lastPrimaryKey]

\* The sequence s occurs in the sequence t as a run of adjacent entries.
IsSegment(s, t) ==
  \E d \in 0..(Len(t) - Len(s)) : \A i \in 1..Len(s) : s[i] = t[d + i]

\* C17: a call with the cursor token of a call that stopped at the limit
\* starts at the entry that follows the last entry of the previous page:
\* the two pages are adjacent entries of the scan, nothing twice and nothing
\* skipped; a cursor path that ends before limit entries returns no token.
C17_CursorTokenResumes ==
  /\ (/\ Paging /\ Len(pages) >= 2 /\ inTok.type = "cursor"
      /\ call.path = "cursor")
       => IsSegment(pages[Len(pages) - 1] \o pages[Len(pages)], Scan(store, query))
  /\ (/\ Called /\ call.path = "cursor" /\ Len(resp.result) < query.limit)
       => resp.pageToken = NoToken

\* C18: a call with limit 0 consumes no entry: reading k entries with the
\* token of a limit = 0 call made with the token T returns the entries that
\* reading k entries with T returns.
C18_LimitZeroConsumesNothing ==
  probe.k # 0 => probe.via = probe.directly

\* C19: paging terminates.  The engine is a function of the store, the
\* query and the token, so a paging sequence that is handed a token it was
\* handed before never ends: in a paging sequence the token of a response
\* is never a token of an earlier call (stated for the lastKey tokens of
\* the sequences that start with a bulk read).
C19_NoTokenTwice ==
  (Paging /\ BulkQuery /\ Called /\ tok.type = "lastKey")
    => \A i \in 1..Len(hist) : hist[i] # tok

\* The range the call resolved its lastKey token to.
ResolvedRange ==
  IF call.path = "getAll" THEN GetAllRange(query, inTok) ELSE LastKeyRange(query, inTok)

\* C20: in a paging sequence every returned entry has an indexed key in the
\* range of the query, and a lastKey token moves only the bound on the
\* resumption side, and only inward.
C20_RangeContainment ==
  (Paging /\ Called)
    => /\ \A i \in 1..Len(pages) : \A j \in 1..Len(pages[i]) :
            \E k \in KeysOf(store, pages[i][j].pk) : InRange(k, query.range)
       /\ inTok.type = "lastKey"
            => LET r == ResolvedRange
                   o == query.range
               IN  IF query.reverse
                   THEN /\ r.hasLower = o.hasLower /\ r.lower = o.lower
                        /\ r.lowerOpen = o.lowerOpen
                        /\ o.hasUpper => cmp(r.upper, o.upper) <= 0
                   ELSE /\ r.hasUpper = o.hasUpper /\ r.upper = o.upper
                        /\ r.upperOpen = o.upperOpen
                        /\ o.hasLower => cmp(r.lower, o.lower) >= 0

====
